---- MODULE Spec2Model ----
(***************************************************************************)
(* Batch OCR of PDF trees: the classic batch (app.py: ocr_all_pdfs over    *)
(* ocr_pdf_file) and the structured batch (app2.py: run_batch over         *)
(* process_pdf), with the text quality filter both share.                  *)
(*                                                                         *)
(* A text is a sequence of one-character strings.  A file of the output    *)
(* tree is a record [exists, text].  The PDF access layer, the OCR engine  *)
(* and the structure engine are the environment: what they return or       *)
(* raise for one page is a record env, chosen with \E.                     *)
(*                                                                         *)
(* The extractors are written once, as operators from the extractor's      *)
(* state x to its next state.  SpecExtract steps through one call of an    *)
(* extractor page by page; Spec runs batches, each call of the extractor   *)
(* being the same operators iterated to the return.                        *)
(***************************************************************************)
EXTENDS Integers, Sequences, FiniteSets, TLC

\* ------------------------------------------------------------------ bounds
\* documents under the root folder
MaxDocs == 2
\* pages of a document
MaxPages == 2
\* batch runs over the root folder
MaxRuns == 2
\* characters of a string handed to the quality filter
MaxTextLen == 21

\* ------------------------------------------------------- program constants
\* app2.py line 160: embedded text is accepted when longer than this.
StructEmbeddedMin == 50

\* ------------------------------------------------------------- characters
Letters == {"a", "b", "g", "k", "o", "x", "y", "z", "K", "O"}
Digits == {"1"}
Whitespace == {" ", "\n"}
AllowedPunct == {".", ",", ";", ":", "!", "?", "(", ")", "-", "[", "]", "{", "}", "\"", "'"}

isalpha(c) == c \in Letters
isspace(c) == c \in Whitespace
isalnum(c) == c \in Letters \cup Digits

MutWeirdAllPunctuation(c) == ~(isalnum(c) \/ isspace(c))

\* not (c.isalnum() or c.isspace() or c in ".,;:!?()-[]{}\"'")
IsWeird(c) == ~(isalnum(c) \/ isspace(c) \/ c \in AllowedPunct)

RECURSIVE count_alpha(_)
\* sum(c.isalpha() for c in text)
count_alpha(text) ==
    IF text = <<>> THEN 0
    ELSE (IF isalpha(Head(text)) THEN 1 ELSE 0) + count_alpha(Tail(text))

RECURSIVE count_space(_)
\* sum(c.isspace() for c in text)
count_space(text) ==
    IF text = <<>> THEN 0
    ELSE (IF isspace(Head(text)) THEN 1 ELSE 0) + count_space(Tail(text))

RECURSIVE count_weird(_)
\* sum(not (...) for c in text)
count_weird(text) ==
    IF text = <<>> THEN 0
    ELSE (IF IsWeird(Head(text)) THEN 1 ELSE 0) + count_weird(Tail(text))

MutReadableNoMinimum(text) ==
    /\ count_alpha(text) * 10 >= Len(text) * 4
    /\ count_weird(text) * 10 <= Len(text)
    /\ ~(Len(text) > 20 /\ count_space(text) = 0)

\* app.py is_readable_text; the float comparisons letters < len*0.4 and
\* weird > len*0.1 are taken times ten, over the integers.
is_readable_text(text) ==
    LET n == Len(text)
        letters == count_alpha(text)
        spaces == count_space(text)
        weird == count_weird(text)
    IN  IF n < 3 THEN FALSE
        ELSE IF letters * 10 < n * 4 THEN FALSE
        ELSE IF weird * 10 > n THEN FALSE
        ELSE IF n > 20 /\ spaces = 0 THEN FALSE
        ELSE TRUE

RECURSIVE lstrip(_)
lstrip(text) ==
    IF text # <<>> /\ isspace(Head(text)) THEN lstrip(Tail(text)) ELSE text

RECURSIVE rstrip(_)
rstrip(text) ==
    IF text # <<>> /\ isspace(text[Len(text)])
    THEN rstrip(SubSeq(text, 1, Len(text) - 1))
    ELSE text

\* str.strip()
strip(text) == rstrip(lstrip(text))

RECURSIVE join(_, _)
\* sep.join(parts)
join(sep, parts) ==
    IF parts = <<>> THEN <<>>
    ELSE IF Len(parts) = 1 THEN parts[1]
    ELSE parts[1] \o sep \o join(sep, Tail(parts))

RECURSIVE readable_lines(_)
\* the lines of an OCR result that pass is_readable_text, in order
readable_lines(lines) ==
    IF lines = <<>> THEN <<>>
    ELSE (IF is_readable_text(Head(lines)) THEN <<Head(lines)>> ELSE <<>>)
         \o readable_lines(Tail(lines))

RECURSIVE Repeat(_, _)
Repeat(text, n) == IF n = 0 THEN <<>> ELSE text \o Repeat(text, n - 1)

\* --------------------------------------------- what the environment returns
\* A 51-character page of prose: longer than the acceptance threshold of
\* app2.py, and as long as the smaller of MinEmbeddedChoices.
LongText == Repeat(<<"a", " ", "b">>, 17)

\* 51 characters of which a third are symbols.
LongNoise == Repeat(<<"#", " ", "a">>, 17)

\* page.get_text(): what a page's embedded text layer may hold.
EmbeddedRaw ==
    { <<" ", "a", "b", "\n">>,
      <<"\n">> \o LongText \o <<" ">>,
      <<" ">> \o LongNoise }

\* result[0] of the OCR engine, reduced to the texts line[1][0] of its lines;
\* <<>> stands for every falsy result (None, [], [None], [[]]).
OcrResults ==
    { <<>>,
      << <<"@", "@", "@">> >>,
      << <<"x", "y", "z">>, <<"@", "#">>, <<"o", "k", " ", "g", "o">> >> }

\* min_embedded_chars values a run may be given.
MinEmbeddedChoices == {51, 52}

\* (export_txt, export_json, export_md) of a structured run.
ExportChoices == { <<TRUE, TRUE, TRUE>>, <<TRUE, FALSE, FALSE>>, <<FALSE, TRUE, FALSE>> }

\* What the collaborators do for one page:
\*   raw       page.get_text()
\*   raster    get_pixmap + pix.save: "ok", "raise" (nothing on disk),
\*             "raise_partial" (pix.save raised after creating the file)
\*   load      Image.open(img_path).convert("RGB"): "ok", "raise"
\*   predict   ocr_instance.predict: "ok", "raise", "no_attr" (the engine has
\*             no predict: AttributeError before any call), "attr_error"
\*             (predict was called and raised AttributeError)
\*   fallback  ocr_instance.ocr: "ok", "raise"
\*   res       the lines the OCR engine returns
\*   pipeline  doc_pipeline.predict and the savers: "ok", "raise"
PageEnv(raw, raster, load, predict, fallback, res, pipeline) ==
    [raw |-> raw, raster |-> raster, load |-> load, predict |-> predict,
     fallback |-> fallback, res |-> res, pipeline |-> pipeline]

OcrLines == << <<"x", "y", "z">>, <<"@", "#">>, <<"o", "k", " ", "g", "o">> >>

EnvEmbedded ==
    PageEnv(<<"\n">> \o LongText \o <<" ">>, "ok", "ok", "ok", "ok", OcrLines, "ok")
EnvScanned == PageEnv(<<" ", "a", "b", "\n">>, "ok", "ok", "ok", "ok", OcrLines, "ok")
EnvPredictRaise == PageEnv(<<" ", "a", "b", "\n">>, "ok", "ok", "raise", "ok", <<>>, "ok")

\* The documents a batch meets: the pages of each, as the collaborators
\* treat them.
BatchDocEnvs ==
    { <<EnvScanned>>,
      <<EnvEmbedded, EnvPredictRaise>> }

NoFile == [exists |-> FALSE, text |-> <<>>]

\* ------------------------------------------------------------------ state
VARIABLES
    nDocs,          \* number of .pdf files under the root folder
    corrupt,        \* corrupt[d]: fitz.open raises for document d
    treeChanged,    \* the input tree was modified since the last run began
    outFile,        \* outFile[d]: ocr_results/<rel>/<stem>_ocr.txt
    errFile,        \* errFile[d]: ocr_results/<rel>/<stem>_ERROR.txt
    runNo,          \* batch runs begun so far
    mode,           \* "classic" (app.py), "structure" (app2.py), "none"
    opts,           \* the arguments of the current run or call
    pc,             \* position of the batch; "direct": an extractor called alone
    pdf_files,      \* the discovered documents, in discovery order
    i,              \* 1-based position in pdf_files
    summary,        \* summary lines of the current (or last returned) run
    ex,             \* the extractor: its locals, its result, the temp dir
    existed,        \* documents whose _ocr.txt existed when reached, this run
    extracted,      \* documents handed to the extractor, this run
    engineDocs,     \* documents for which an engine was invoked, this run
    written,        \* <<d, kind>>: artifacts written, this run
    prev,           \* mode and per-document status of the previous run
    sameTree,       \* the input tree is as it was when the previous run began
    tree,           \* the files under the root folder, as paths relative to it
    txt,            \* a string handed to is_readable_text
    verdict,        \* what is_readable_text returned for it
    workers         \* workers[w]: a batch run that shares the root with another

treeVars == <<nDocs, corrupt, treeChanged>>
fsVars == <<outFile, errFile>>
runVars == <<runNo, mode, opts, pdf_files, prev, sameTree>>
histVars == <<existed, extracted, engineDocs, written>>
\* the state of the specifications other than Spec and SpecExtract
otherVars == <<tree, txt, verdict, workers>>
vars == <<nDocs, corrupt, treeChanged, outFile, errFile,
          runNo, mode, opts, pc, pdf_files, i, summary, ex,
          existed, extracted, engineDocs, written, prev, sameTree,
          tree, txt, verdict, workers>>

DocIds == 1..MaxDocs

NoResult ==
    [has_error |-> FALSE, error |-> "", traceback |-> <<>>,
     total_pages |-> 0, full_text |-> <<>>, pages |-> <<>>]

\* What is known of the page in hand: its trimmed embedded text and the
\* calls made for it.
NoPage ==
    [page |-> 0, embedded |-> <<>>, pixmap |-> 0, loaded |-> FALSE,
     predict |-> 0, ocr |-> 0, attr |-> FALSE, ended |-> FALSE]

NoOpts ==
    [force_ocr |-> FALSE, min_embedded_chars |-> 0,
     export_txt |-> FALSE, export_json |-> FALSE, export_md |-> FALSE]

\* The extractor before a call; tmp is what the temp directory holds.
\*   contrib   per page, the text the page added to all_text (<<>> if none)
\*   raised    the pages at which rendering, loading or recognition raised
\*   struct    structured artifacts saved by this call
\*   engine    an OCR or structure engine was invoked in this call
Idle(tmp) ==
    [pc |-> "none", total_pages |-> 0, page_num |-> 0, all_text |-> <<>>,
     pages |-> <<>>, contrib |-> <<>>, raised |-> {}, struct |-> {},
     engine |-> FALSE, result |-> NoResult, cur |-> NoPage, tmp |-> tmp]

\* ---------------------------------------------------------------- helpers
\* list_pdf_files: Path(folder).rglob("*.pdf"), as document ids in the order
\* the walk yields them.
list_pdf_files == [k \in 1..nDocs |-> k]

\* the except clause of the extractor: {"error": str(e), "traceback": ...}
ErrorResult(e) ==
    [has_error |-> TRUE, error |-> e, traceback |-> <<"Traceback", e>>,
     total_pages |-> 0, full_text |-> <<>>, pages |-> <<>>]

\* f"ERROR: {result['error']}\n\n{result.get('traceback','')}"
ErrorText(res) == <<"ERROR: ", res.error, "\n", "\n">> \o res.traceback

Line(status, d, n) == [status |-> status, doc |-> d, pages |-> n]

\* os.path.join(tempfile.gettempdir(), f"<prefix>_{os.getpid()}_{page_num}.png")
img_path(prefix, p) == <<prefix, p>>

StatusOf(lines, d) ==
    IF \E k \in 1..Len(lines) : lines[k].doc = d
    THEN lines[CHOOSE k \in 1..Len(lines) : lines[k].doc = d].status
    ELSE "none"

\* lines 143-153 of app.py (168-178 of app2.py): predict, the ocr fallback
\* on AttributeError, and the quality filter over the lines returned
Recognize(env) ==
    LET useOcr == env.predict \in {"no_attr", "attr_error"}
        raised == \/ env.predict = "raise"
                  \/ useOcr /\ env.fallback = "raise"
    IN  [raised |-> raised,
         predict |-> IF env.predict = "no_attr" THEN 0 ELSE 1,
         ocr |-> IF useOcr THEN 1 ELSE 0,
         attr |-> useOcr,
         lines |-> IF raised THEN <<>> ELSE readable_lines(env.res)]

\* ------------------------------------------------ app.py: ocr_pdf_file
MutAcceptEmbeddedStrict(force_ocr, embedded, min_embedded_chars) ==
    /\ ~force_ocr
    /\ embedded # <<>>
    /\ Len(embedded) > min_embedded_chars
    /\ is_readable_text(embedded)

\* app.py line 129
accept_embedded(force_ocr, embedded, min_embedded_chars) ==
    /\ ~force_ocr
    /\ embedded # <<>>
    /\ Len(embedded) >= min_embedded_chars
    /\ is_readable_text(embedded)

MutFullTextSingleBreak(texts) == join(<<"\n">>, texts)

\* app.py line 169: "\n\n".join(all_text)
full_text_of(texts) == join(<<"\n", "\n">>, texts)

\* lines 184-189: the outer except turns any exception into an error result
ocr_except(x, e) == [x EXCEPT !.pc = "done", !.result = ErrorResult(e)]

\* lines 112-120: open the document, count its pages
ocr_open(tmp, isCorrupt, n) ==
    IF isCorrupt
    THEN ocr_except(Idle(tmp), "open")
    ELSE [Idle(tmp) EXCEPT !.pc = "page", !.total_pages = n]

\* lines 126-137: accept the embedded text, or render the page to a file;
\* get_pixmap and pix.save are outside the inner try
ocr_render(x, o, env) ==
    LET embedded == strip(env.raw)
        p == x.page_num + 1
        here == [NoPage EXCEPT !.page = p, !.embedded = embedded]
    IN  IF accept_embedded(o.force_ocr, embedded, o.min_embedded_chars)
        THEN [x EXCEPT !.all_text = Append(@, embedded),
                       !.pages = Append(@, [page |-> p, method |-> "embedded"]),
                       !.contrib = Append(@, embedded),
                       !.page_num = p,
                       !.cur = [here EXCEPT !.ended = TRUE]]
        ELSE IF env.raster = "ok"
        THEN [x EXCEPT !.pc = "recognize",
                       !.tmp = @ \cup {img_path("ocr", x.page_num)},
                       !.cur = [here EXCEPT !.pixmap = 1]]
        ELSE [ocr_except(x, "rasterize") EXCEPT
                       !.tmp = IF env.raster = "raise_partial"
                               THEN @ \cup {img_path("ocr", x.page_num)} ELSE @,
                       !.raised = @ \cup {p},
                       !.cur = [here EXCEPT !.pixmap = 1, !.ended = TRUE]]

\* lines 139-165: load the image, recognize, keep the readable lines;
\* except: an "error" page; finally: remove the image
ocr_recognize(x, env) ==
    LET p == x.page_num + 1
        r == Recognize(env)
        loaded == env.load = "ok"
        raised == ~loaded \/ r.raised
        method == IF raised THEN "error"
                  ELSE IF r.lines # <<>> THEN "ocr" ELSE "ocr_empty"
        text == IF method = "ocr" THEN join(<<"\n">>, r.lines) ELSE <<>>
    IN  [x EXCEPT !.pc = "page",
                  !.all_text = IF method = "ocr" THEN Append(@, text) ELSE @,
                  !.pages = Append(@, [page |-> p, method |-> method]),
                  !.contrib = Append(@, text),
                  !.raised = IF raised THEN @ \cup {p} ELSE @,
                  !.engine = @ \/ (loaded /\ r.predict + r.ocr > 0),
                  !.page_num = p,
                  !.tmp = @ \ {img_path("ocr", x.page_num)},
                  !.cur = [@ EXCEPT !.loaded = loaded,
                                    !.predict = IF loaded THEN r.predict ELSE 0,
                                    !.ocr = IF loaded THEN r.ocr ELSE 0,
                                    !.attr = loaded /\ r.attr,
                                    !.ended = TRUE]]

\* lines 167-182: close, join the page texts, return the document result
ocr_return(x) ==
    [x EXCEPT !.pc = "done",
              !.result = [NoResult EXCEPT !.total_pages = x.total_pages,
                                          !.full_text = full_text_of(x.all_text),
                                          !.pages = x.pages]]

RECURSIVE ocr_loop(_, _, _)
\* lines 122-182: the page loop, to the return
ocr_loop(x, o, envs) ==
    IF x.pc = "done" THEN x
    ELSE IF x.pc = "recognize"
    THEN ocr_loop(ocr_recognize(x, envs[x.page_num + 1]), o, envs)
    ELSE IF x.page_num < x.total_pages
    THEN ocr_loop(ocr_render(x, o, envs[x.page_num + 1]), o, envs)
    ELSE ocr_return(x)

\* ocr_pdf_file(pdf_path, force_ocr, min_embedded_chars), lines 108-189
ocr_pdf_file(tmp, isCorrupt, o, envs) ==
    ocr_loop(ocr_open(tmp, isCorrupt, Len(envs)), o, envs)

\* ------------------------------------------------- app2.py: process_pdf
\* app2.py line 160
accept_embedded2(force_ocr, embedded) ==
    /\ ~force_ocr
    /\ embedded # <<>>
    /\ Len(embedded) > StructEmbeddedMin

\* lines 197-202
process_except(x, e) == [x EXCEPT !.pc = "done", !.result = ErrorResult(e)]

\* lines 116-129
process_open(tmp, isCorrupt, n) ==
    IF isCorrupt
    THEN process_except(Idle(tmp), "open")
    ELSE [Idle(tmp) EXCEPT !.pc = "page", !.total_pages = n]

\* lines 134-144: read the embedded text, render the page to a file
process_render(x, env) ==
    LET p == x.page_num + 1
        here == [NoPage EXCEPT !.page = p, !.embedded = strip(env.raw), !.pixmap = 1]
    IN  IF env.raster = "ok"
        THEN [x EXCEPT !.pc = "recognize",
                       !.tmp = @ \cup {img_path("doc", x.page_num)},
                       !.cur = here]
        ELSE [process_except(x, "rasterize") EXCEPT
                       !.tmp = IF env.raster = "raise_partial"
                               THEN @ \cup {img_path("doc", x.page_num)} ELSE @,
                       !.raised = @ \cup {p},
                       !.cur = [here EXCEPT !.ended = TRUE]]

\* lines 146-190: structured export, then the page's text; there is no
\* except clause, so whatever raises leaves through finally to line 197
process_recognize(x, o, env) ==
    LET p == x.page_num + 1
        wantStruct == o.export_json \/ o.export_md
        loaded == env.load = "ok"
        structRaised == wantStruct /\ (~loaded \/ env.pipeline = "raise")
        saved == IF wantStruct /\ ~structRaised
                 THEN {<<p, k>> : k \in (IF o.export_json THEN {"json"} ELSE {})
                                        \cup (IF o.export_md THEN {"md"} ELSE {})}
                 ELSE {}
        embedded == x.cur.embedded
        useEmbedded == accept_embedded2(o.force_ocr, embedded)
        wantOcr == o.export_txt /\ ~structRaised /\ ~useEmbedded
        r == Recognize(env)
        ocrRaised == wantOcr /\ (~loaded \/ r.raised)
        raised == structRaised \/ ocrRaised
        page_text == IF useEmbedded THEN embedded ELSE join(<<"\n">>, r.lines)
        collected == useEmbedded \/ page_text # <<>>
        method == IF useEmbedded THEN "embedded"
                  ELSE IF collected THEN "ocr" ELSE "ocr_empty"
        y == [x EXCEPT !.struct = @ \cup saved,
                       !.engine = @ \/ (wantStruct /\ loaded)
                                    \/ (wantOcr /\ loaded /\ r.predict + r.ocr > 0),
                       !.tmp = @ \ {img_path("doc", x.page_num)},
                       !.cur = [@ EXCEPT !.loaded = loaded,
                                         !.predict = IF wantOcr /\ loaded THEN r.predict ELSE 0,
                                         !.ocr = IF wantOcr /\ loaded THEN r.ocr ELSE 0,
                                         !.attr = wantOcr /\ loaded /\ r.attr,
                                         !.ended = TRUE]]
    IN  IF raised
        THEN [process_except(y, IF structRaised THEN "structure" ELSE "recognize")
                 EXCEPT !.raised = @ \cup {p}]
        ELSE IF o.export_txt
        THEN [y EXCEPT !.pc = "page",
                       !.all_text = IF collected THEN Append(@, page_text) ELSE @,
                       !.pages = Append(@, [page |-> p, method |-> method]),
                       !.contrib = Append(@, IF collected THEN page_text ELSE <<>>),
                       !.page_num = p]
        ELSE [y EXCEPT !.pc = "page", !.page_num = p]

\* lines 192-195
process_return(x) ==
    [x EXCEPT !.pc = "done",
              !.result = [NoResult EXCEPT !.total_pages = x.total_pages,
                                          !.full_text = full_text_of(x.all_text),
                                          !.pages = x.pages]]

RECURSIVE process_loop(_, _, _)
\* lines 131-195
process_loop(x, o, envs) ==
    IF x.pc = "done" THEN x
    ELSE IF x.pc = "recognize"
    THEN process_loop(process_recognize(x, o, envs[x.page_num + 1]), o, envs)
    ELSE IF x.page_num < x.total_pages
    THEN process_loop(process_render(x, envs[x.page_num + 1]), o, envs)
    ELSE process_return(x)

\* process_pdf(pdf_path, force_ocr, ..., struct_save_dir), lines 100-202
process_pdf(tmp, isCorrupt, o, envs) ==
    process_loop(process_open(tmp, isCorrupt, Len(envs)), o, envs)

\* ------------------------------------------------------------------- Init
Quiet ==
    /\ treeChanged = FALSE
    /\ outFile = [d \in DocIds |-> NoFile]
    /\ errFile = [d \in DocIds |-> NoFile]
    /\ runNo = 0
    /\ pdf_files = <<>>
    /\ i = 1
    /\ summary = <<>>
    /\ ex = Idle({})
    /\ existed = {}
    /\ extracted = {}
    /\ engineDocs = {}
    /\ written = {}
    /\ prev = [mode |-> "none", status |-> [d \in DocIds |-> "none"]]
    /\ sameTree = FALSE

\* No path-level tree, no string under test, no second worker.
Apart ==
    /\ tree = {}
    /\ txt = <<>>
    /\ verdict = FALSE
    /\ workers = <<>>

\* A root folder that holds nDocs documents and no output tree yet.
Init ==
    /\ nDocs \in 0..MaxDocs
    /\ corrupt \in [DocIds -> BOOLEAN]
    /\ \A d \in DocIds : d > nDocs => ~corrupt[d]
    /\ mode = "none"
    /\ opts = NoOpts
    /\ pc = "idle"
    /\ Quiet
    /\ Apart

ClassicOpts ==
    { [NoOpts EXCEPT !.force_ocr = f, !.min_embedded_chars = m, !.export_txt = TRUE] :
          f \in BOOLEAN, m \in MinEmbeddedChoices }

StructOpts ==
    { [NoOpts EXCEPT !.force_ocr = f, !.export_txt = e[1],
                     !.export_json = e[2], !.export_md = e[3]] :
          f \in BOOLEAN, e \in ExportChoices }

\* One extractor about to be called on one document.
InitExtract ==
    /\ nDocs = 1
    /\ corrupt \in [DocIds -> BOOLEAN]
    /\ \A d \in DocIds : d > 1 => ~corrupt[d]
    /\ \/ mode = "classic" /\ opts \in ClassicOpts
       \/ mode = "structure" /\ opts \in StructOpts
    /\ pc = "direct"
    /\ Quiet
    /\ Apart

\* ------------------------------------------- an extractor, step by step
Untouched ==
    UNCHANGED <<otherVars, treeVars, fsVars, runVars, pc, i, summary, histVars>>

\* bare values for the fields of env a step does not read
RenderEnv(raw, raster) == PageEnv(raw, raster, "ok", "ok", "ok", <<>>, "ok")
RecognizeEnv(load, predict, fallback, res, pipeline) ==
    PageEnv(<<>>, "ok", load, predict, fallback, res, pipeline)

Rasters == {"ok", "raise", "raise_partial"}
Loads == {"ok", "raise"}
Predicts == {"ok", "raise", "no_attr", "attr_error"}
Fallbacks == {"ok", "raise"}
Pipelines == {"ok", "raise"}

OcrPdfFileOpen ==
    /\ pc = "direct" /\ mode = "classic" /\ ex.pc = "none"
    /\ \E n \in 0..MaxPages : ex' = ocr_open(ex.tmp, corrupt[1], n)
    /\ Untouched

OcrPdfFileRender ==
    /\ pc = "direct" /\ mode = "classic" /\ ex.pc = "page"
    /\ ex.page_num < ex.total_pages
    /\ \E raw \in EmbeddedRaw, raster \in Rasters :
           ex' = ocr_render(ex, opts, RenderEnv(raw, raster))
    /\ Untouched

OcrPdfFileRecognize ==
    /\ pc = "direct" /\ mode = "classic" /\ ex.pc = "recognize"
    /\ \E load \in Loads, predict \in Predicts, fallback \in Fallbacks,
          res \in OcrResults :
           ex' = ocr_recognize(ex, RecognizeEnv(load, predict, fallback, res, "ok"))
    /\ Untouched

OcrPdfFileReturn ==
    /\ pc = "direct" /\ mode = "classic" /\ ex.pc = "page"
    /\ ex.page_num = ex.total_pages
    /\ ex' = ocr_return(ex)
    /\ Untouched

ProcessPdfOpen ==
    /\ pc = "direct" /\ mode = "structure" /\ ex.pc = "none"
    /\ \E n \in 0..MaxPages : ex' = process_open(ex.tmp, corrupt[1], n)
    /\ Untouched

ProcessPdfRender ==
    /\ pc = "direct" /\ mode = "structure" /\ ex.pc = "page"
    /\ ex.page_num < ex.total_pages
    /\ \E raw \in EmbeddedRaw, raster \in Rasters :
           ex' = process_render(ex, RenderEnv(raw, raster))
    /\ Untouched

ProcessPdfRecognize ==
    /\ pc = "direct" /\ mode = "structure" /\ ex.pc = "recognize"
    /\ \E load \in Loads, predict \in Predicts, fallback \in Fallbacks,
          res \in OcrResults, pipeline \in Pipelines :
           ex' = process_recognize(ex, opts,
                     RecognizeEnv(load, predict, fallback, res, pipeline))
    /\ Untouched

ProcessPdfReturn ==
    /\ pc = "direct" /\ mode = "structure" /\ ex.pc = "page"
    /\ ex.page_num = ex.total_pages
    /\ ex' = process_return(ex)
    /\ Untouched

NextExtract ==
    \/ OcrPdfFileOpen
    \/ OcrPdfFileRender
    \/ OcrPdfFileRecognize
    \/ OcrPdfFileReturn
    \/ ProcessPdfOpen
    \/ ProcessPdfRender
    \/ ProcessPdfRecognize
    \/ ProcessPdfReturn

SpecExtract == InitExtract /\ [][NextExtract]_vars

\* -------------------------------------------------------------- batches
\* What every batch does before its loop: discovery, an empty summary.
BeginRun(m, o) ==
    /\ pc = "idle"
    /\ runNo < MaxRuns
    /\ runNo' = runNo + 1
    /\ mode' = m
    /\ opts' = o
    /\ pdf_files' = list_pdf_files
    /\ i' = 1
    /\ prev' = [mode |-> mode, status |-> [d \in DocIds |-> StatusOf(summary, d)]]
    /\ sameTree' = ~treeChanged
    /\ treeChanged' = FALSE
    /\ existed' = {}
    /\ extracted' = {}
    /\ engineDocs' = {}
    /\ written' = {}
    /\ ex' = Idle(ex.tmp)
    /\ UNCHANGED <<otherVars, nDocs, corrupt, fsVars>>

MutNeverExists(d) == FALSE

\* app.py line 220: out_file.exists()
out_file_exists(d) == outFile[d].exists

MutNoError(res) == FALSE

\* app.py line 227, app2.py line 279: "error" in result
has_error(res) == res.has_error

MutAppendDropSkipped(lines, line) ==
    IF line.status = "SKIPPED" THEN lines ELSE Append(lines, line)

\* summary.append(...)
summary_append(lines, line) == Append(lines, line)

\* the filesystem after lines 227-237 of app.py (279-288 of app2.py)
WriteResult(d, res, writeText) ==
    IF has_error(res)
    THEN /\ errFile' = [errFile EXCEPT ![d] =
                [exists |-> TRUE, text |-> ErrorText(res)]]
         /\ written' = written \cup {<<d, "ERROR">>}
         /\ summary' = summary_append(summary, Line("ERROR", d, 0))
         /\ UNCHANGED outFile
    ELSE /\ outFile' = IF writeText
                       THEN [outFile EXCEPT ![d] =
                               [exists |-> TRUE, text |-> res.full_text]]
                       ELSE outFile
         /\ written' = IF writeText THEN written \cup {<<d, "ocr">>} ELSE written
         /\ summary' = summary_append(summary, Line("OK", d, res.total_pages))
         /\ UNCHANGED errFile

\* ocr_all_pdfs, lines 198-208
ocr_all_pdfs_begin ==
    /\ \E o \in ClassicOpts : BeginRun("classic", o)
    /\ summary' = <<>>
    /\ pc' = "loop"

\* ocr_all_pdfs, lines 210-223: the loop header and the resume check
ocr_all_pdfs_iter ==
    /\ mode = "classic" /\ pc = "loop" /\ i <= Len(pdf_files)
    /\ LET d == pdf_files[i] IN
        /\ existed' = IF outFile[d].exists THEN existed \cup {d} ELSE existed
        /\ IF out_file_exists(d)
           THEN /\ summary' = summary_append(summary, Line("SKIPPED", d, 0))
                /\ i' = i + 1
                /\ pc' = "loop"
           ELSE /\ pc' = "extract"
                /\ UNCHANGED <<i, summary>>
    /\ ex' = Idle(ex.tmp)
    /\ UNCHANGED <<otherVars, treeVars, fsVars, runVars, extracted, engineDocs, written>>

\* ocr_all_pdfs, line 225: result = ocr_pdf_file(...)
ocr_all_pdfs_extract ==
    /\ mode = "classic" /\ pc = "extract"
    /\ LET d == pdf_files[i] IN
        \E envs \in BatchDocEnvs :
            /\ ex' = ocr_pdf_file(ex.tmp, corrupt[d], opts, envs)
            /\ extracted' = extracted \cup {d}
            /\ engineDocs' = IF ex'.engine THEN engineDocs \cup {d} ELSE engineDocs
    /\ pc' = "write"
    /\ UNCHANGED <<otherVars, treeVars, fsVars, runVars, i, summary, existed, written>>

\* ocr_all_pdfs, lines 227-237: persist the result, add the summary line
ocr_all_pdfs_write ==
    /\ mode = "classic" /\ pc = "write"
    /\ WriteResult(pdf_files[i], ex.result, TRUE)
    /\ i' = i + 1
    /\ pc' = "loop"
    /\ UNCHANGED <<otherVars, treeVars, runVars, ex, existed, extracted, engineDocs>>

\* ocr_all_pdfs, line 239: return the joined summary
ocr_all_pdfs_return ==
    /\ mode = "classic" /\ pc = "loop" /\ i > Len(pdf_files)
    /\ pc' = "idle"
    /\ ex' = Idle(ex.tmp)
    /\ UNCHANGED <<otherVars, treeVars, fsVars, runVars, i, summary, histVars>>

\* run_batch, lines 226-248; with no document it returns at line 246
run_batch_begin ==
    /\ \E o \in StructOpts : BeginRun("structure", o)
    /\ IF nDocs = 0
       THEN /\ summary' = <<Line("No PDF files found", 0, 0)>>
            /\ pc' = "idle"
       ELSE /\ summary' = <<>>
            /\ pc' = "loop"

\* run_batch, lines 250-277: the loop header, then res = process_pdf(...)
run_batch_process ==
    /\ mode = "structure" /\ pc = "loop" /\ i <= Len(pdf_files)
    /\ LET d == pdf_files[i] IN
        \E envs \in BatchDocEnvs :
            /\ ex' = process_pdf(ex.tmp, corrupt[d], opts, envs)
            /\ existed' = IF outFile[d].exists THEN existed \cup {d} ELSE existed
            /\ extracted' = extracted \cup {d}
            /\ engineDocs' = IF ex'.engine THEN engineDocs \cup {d} ELSE engineDocs
            /\ written' = IF ex'.struct # {} THEN written \cup {<<d, "struct">>}
                          ELSE written
    /\ pc' = "write"
    /\ UNCHANGED <<otherVars, treeVars, fsVars, runVars, i, summary>>

\* run_batch, lines 279-288
run_batch_write ==
    /\ mode = "structure" /\ pc = "write"
    /\ WriteResult(pdf_files[i], ex.result, opts.export_txt)
    /\ i' = i + 1
    /\ pc' = "loop"
    /\ UNCHANGED <<otherVars, treeVars, runVars, ex, existed, extracted, engineDocs>>

\* run_batch, line 290
run_batch_return ==
    /\ mode = "structure" /\ pc = "loop" /\ i > Len(pdf_files)
    /\ pc' = "idle"
    /\ ex' = Idle(ex.tmp)
    /\ UNCHANGED <<otherVars, treeVars, fsVars, runVars, i, summary, histVars>>

\* ------------------------------------------------------------ environment
\* Between runs a document of the tree is damaged or repaired.
ModifyTree ==
    /\ pc = "idle"
    /\ runNo < MaxRuns
    /\ \E d \in 1..nDocs : corrupt' = [corrupt EXCEPT ![d] = ~corrupt[d]]
    /\ treeChanged' = TRUE
    /\ UNCHANGED <<otherVars, nDocs, fsVars, runVars, pc, i, summary, ex, histVars>>

Next ==
    \/ ocr_all_pdfs_begin
    \/ ocr_all_pdfs_iter
    \/ ocr_all_pdfs_extract
    \/ ocr_all_pdfs_write
    \/ ocr_all_pdfs_return
    \/ run_batch_begin
    \/ run_batch_process
    \/ run_batch_write
    \/ run_batch_return
    \/ ModifyTree

Spec == Init /\ [][Next]_vars

\* ================================================================ claims
Entries == 1..Len(summary)
Statuses == {"OK", "ERROR", "SKIPPED"}
TextWritten(d) == <<d, "ocr">> \in written \/ <<d, "ERROR">> \in written

\* A classic run that follows a completed classic run, the input tree not
\* having been modified in between.
SecondClassicRun ==
    /\ runNo >= 2
    /\ mode = "classic"
    /\ prev.mode = "classic"
    /\ sameTree

\* C1, as claimed: in the second of two classic runs over an unchanged tree
\* every summary entry is SKIPPED and no text artifact is written, whatever
\* the documents (documents that fail to open included).
C1_AsClaimed ==
    SecondClassicRun =>
        /\ \A k \in Entries : summary[k].status = "SKIPPED"
        /\ \A d \in DocIds : ~TextWritten(d)

\* C1, amended: in the second of two classic runs over an unchanged tree,
\* a document whose first-run entry was OK or SKIPPED is SKIPPED, is not
\* extracted, and none of its text artifacts is written; a document whose
\* first-run entry was ERROR is extracted again, its entry is never SKIPPED,
\* and its _ERROR.txt is rewritten when it fails again.
C1_SecondRunSkipsTheSucceeded ==
    SecondClassicRun =>
        /\ \A d \in DocIds :
               prev.status[d] \in {"OK", "SKIPPED"} =>
                   /\ d \notin extracted
                   /\ ~TextWritten(d)
        /\ \A k \in Entries :
               LET e == summary[k] IN
               /\ prev.status[e.doc] \in {"OK", "SKIPPED"} => e.status = "SKIPPED"
               /\ prev.status[e.doc] = "ERROR" =>
                      /\ e.status # "SKIPPED"
                      /\ e.doc \in extracted
                      /\ e.status = "ERROR" => <<e.doc, "ERROR">> \in written

\* A second classic run has returned: one document skipped, one failed again.
C1_Witness ==
    /\ SecondClassicRun
    /\ pc = "idle"
    /\ Len(summary) = 2
    /\ \E k \in Entries :
           summary[k].status = "SKIPPED" /\ prev.status[summary[k].doc] = "OK"
    /\ \E k \in Entries :
           summary[k].status = "ERROR" /\ prev.status[summary[k].doc] = "ERROR"

\* C2: in a classic run, a document whose _ocr.txt existed when the loop
\* reached it has the entry SKIPPED; the extractor and the OCR engine are
\* not invoked for it and neither of its text artifacts is written.
C2_ExistingOutputIsSkipped ==
    mode = "classic" =>
        \A d \in existed :
            /\ StatusOf(summary, d) = "SKIPPED"
            /\ d \notin extracted
            /\ d \notin engineDocs
            /\ ~TextWritten(d)

\* A classic run met a document with its _ocr.txt in place, and returned.
C2_Witness ==
    /\ mode = "classic"
    /\ pc = "idle"
    /\ \E d \in existed : outFile[d].exists /\ StatusOf(summary, d) = "SKIPPED"

\* C3, as claimed: in a structured run, a document whose _ocr.txt existed
\* when the loop reached it is recorded SKIPPED, process_pdf is not called
\* for it and none of its artifacts is rewritten.
C3_AsClaimed ==
    mode = "structure" =>
        \A d \in existed :
            /\ d \notin extracted
            /\ ~TextWritten(d)
            /\ <<d, "struct">> \notin written
            /\ StatusOf(summary, d) \in {"none", "SKIPPED"}

\* C5, as claimed: no document ever has both <stem>_ocr.txt and
\* <stem>_ERROR.txt in the text output tree.
C5_AsClaimed ==
    \A d \in DocIds : ~(outFile[d].exists /\ errFile[d].exists)

\* C7: when fitz.open fails for a document of a run, the run writes its
\* _ERROR.txt with the message and the trace, does not write its _ocr.txt,
\* and records ERROR; and the run still gives every discovered document,
\* those after the failing one included, its own entry.
C7_OpenFailureIsRecorded ==
    (runNo > 0 /\ ~treeChanged) =>
        /\ \A k \in Entries :
               LET d == summary[k].doc IN
               (d \in extracted /\ corrupt[d]) =>
                   /\ summary[k].status = "ERROR"
                   /\ <<d, "ERROR">> \in written
                   /\ <<d, "ocr">> \notin written
                   /\ errFile[d] = [exists |-> TRUE,
                                    text |-> ErrorText(ErrorResult("open"))]
        /\ (pc = "idle" /\ nDocs > 0) =>
               /\ Len(summary) = nDocs
               /\ \A k \in Entries : summary[k].doc = pdf_files[k]

\* A run has returned: its first document failed to open, its second is OK.
C7_Witness ==
    /\ runNo > 0 /\ ~treeChanged /\ pc = "idle"
    /\ Len(summary) = 2
    /\ corrupt[summary[1].doc] /\ summary[1].status = "ERROR"
    /\ summary[2].status = "OK"
    /\ errFile[summary[1].doc].exists /\ ~outFile[summary[1].doc].exists

\* One line per discovered document, in discovery order, each OK, ERROR or
\* SKIPPED, and nothing else.
OneLinePerDocument ==
    /\ Len(summary) = Len(pdf_files)
    /\ \A k \in Entries :
           summary[k].doc = pdf_files[k] /\ summary[k].status \in Statuses

\* The OK line just written carries the page count of the document.
OkLineCountsThePages ==
    (pc = "loop" /\ ex.pc = "done" /\ summary # <<>>
        /\ summary[Len(summary)].status = "OK") =>
        summary[Len(summary)].pages = ex.total_pages

\* C8, as claimed: every completed run, classic or structured, a root with
\* zero documents included, returns exactly one OK/ERROR/SKIPPED line per
\* discovered document, in discovery order, and no other line; an OK line's
\* page count is the document's.
C8_AsClaimed ==
    /\ (pc = "idle" /\ runNo > 0) => OneLinePerDocument
    /\ OkLineCountsThePages

\* C8, amended: the same, except that a structured run over a root with
\* zero documents returns the single line "No PDF files found".
C8_SummaryShape ==
    /\ (pc = "idle" /\ runNo > 0) =>
           IF mode = "structure" /\ pdf_files = <<>>
           THEN summary = <<Line("No PDF files found", 0, 0)>>
           ELSE OneLinePerDocument
    /\ OkLineCountsThePages

\* A run over two documents has returned with a SKIPPED line and an OK line
\* of two pages.
C8_Witness ==
    /\ pc = "idle" /\ runNo > 0
    /\ Len(summary) = 2
    /\ \E k \in Entries : summary[k].status = "SKIPPED"
    /\ \E k \in Entries : summary[k].status = "OK" /\ summary[k].pages = 2

\* ------------------------------------------- claims about the extractors
Raised == ex.raised

\* C4, as claimed: in either extractor, when rendering, saving or
\* recognizing page i raises, page i gets the outcome error, every page
\* gets an outcome, and the document result is a success.
C4_AsClaimed ==
    (pc = "direct" /\ ex.pc = "done" /\ Raised # {}) =>
        /\ ~ex.result.has_error
        /\ Len(ex.result.pages) = ex.total_pages
        /\ \A p \in Raised : ex.result.pages[p].method = "error"

\* C6, as claimed: once the processing of a page has ended, however it
\* ended, no temporary page image is left in the temp directory.
C6_AsClaimed ==
    (pc = "direct" /\ ex.pc # "recognize") => ex.tmp = {}

EngineCalls == ex.cur.predict + ex.cur.ocr

\* The classic extractor, force-OCR off, has finished with a page.
ClassicPageEnded ==
    /\ pc = "direct" /\ mode = "classic" /\ ~opts.force_ocr
    /\ ex.cur.ended

Trusted ==
    /\ Len(ex.cur.embedded) >= opts.min_embedded_chars
    /\ is_readable_text(ex.cur.embedded)

Short == Len(ex.cur.embedded) < opts.min_embedded_chars

\* An accepted page is "embedded", with no rendering and no engine call.
C9_TrustedIsEmbedded ==
    (ClassicPageEnded /\ Trusted) =>
        /\ ex.cur.page \in DOMAIN ex.pages
        /\ ex.pages[ex.cur.page].method = "embedded"
        /\ ex.cur.pixmap = 0
        /\ EngineCalls = 0

\* C9, as claimed: an accepted page is "embedded" with no rendering and no
\* engine call; a page whose trimmed embedded text is shorter than the
\* threshold has the OCR engine invoked exactly once.
C9_AsClaimed ==
    /\ C9_TrustedIsEmbedded
    /\ (ClassicPageEnded /\ Short) => EngineCalls = 1

\* C9, amended: an accepted page is "embedded" with no rendering and no
\* engine call; a page whose trimmed embedded text is shorter than the
\* threshold is rendered, and the engine is invoked exactly once for it when
\* its image is saved and loaded without error (twice when predict itself
\* raises AttributeError and ocr is called after it), and not at all when
\* rendering, saving or loading raises.
C9_PageDecision ==
    /\ C9_TrustedIsEmbedded
    /\ (ClassicPageEnded /\ Short) =>
           /\ ex.cur.pixmap = 1
           /\ EngineCalls = IF ~ex.cur.loaded THEN 0
                            ELSE IF ex.cur.predict = 1 /\ ex.cur.attr THEN 2
                            ELSE 1

\* Page 1 was accepted as embedded; page 2, too short, went to the engine
\* once.
C9_Witness ==
    /\ ClassicPageEnded
    /\ ex.cur.page = 2
    /\ ex.pages[1].method = "embedded"
    /\ Short /\ ex.cur.loaded /\ EngineCalls = 1
    /\ ex.pages[2].method = "ocr"

RECURSIVE Contributions(_, _)
\* the texts of the pages with outcome embedded or ocr, in page order
Contributions(pages, contrib) ==
    IF pages = <<>> THEN <<>>
    ELSE (IF Head(pages).method \in {"embedded", "ocr"}
          THEN <<Head(contrib)>> ELSE <<>>)
         \o Contributions(Tail(pages), Tail(contrib))

\* C10: a successful document result has one outcome per page, numbered
\* 1..N in order; its full_text is the texts of the embedded and ocr pages,
\* in page order, with a blank line between them; ocr_empty and error pages
\* contribute nothing.
C10_FullTextIsThePagesInOrder ==
    (pc = "direct" /\ ex.pc = "done" /\ ~ex.result.has_error
        /\ (mode = "classic" \/ opts.export_txt)) =>
        LET r == ex.result IN
        /\ Len(r.pages) = ex.total_pages
        /\ Len(ex.contrib) = ex.total_pages
        /\ \A k \in 1..Len(r.pages) :
               /\ r.pages[k].page = k
               /\ r.pages[k].method \in {"embedded", "ocr", "ocr_empty", "error"}
               /\ r.pages[k].method \in {"ocr_empty", "error"} <=> ex.contrib[k] = <<>>
        /\ r.full_text = join(<<"\n", "\n">>, Contributions(r.pages, ex.contrib))

\* A two-page document: page 1 embedded, page 2 recognized, both in the text.
C10_Witness ==
    /\ pc = "direct" /\ mode = "classic" /\ ex.pc = "done"
    /\ ~ex.result.has_error
    /\ Len(ex.result.pages) = 2
    /\ ex.result.pages[1].method = "embedded"
    /\ ex.result.pages[2].method = "ocr"
    /\ ex.result.full_text = ex.contrib[1] \o <<"\n", "\n">> \o ex.contrib[2]
    /\ ex.contrib[1] # ex.contrib[2]

\* =============================================== the root folder, by paths
\* A file under the root folder: the directories from the root down to it,
\* the parts of its stem, its extension.
File(dir, stem, ext) == [dir |-> dir, stem |-> stem, ext |-> ext]

\* Files someone may put under the root folder between runs.
UserFiles ==
    { File(<<>>, <<"a">>, "pdf"),
      File(<<"sub">>, <<"b">>, "pdf"),
      File(<<"ocr_results">>, <<"c">>, "pdf"),
      File(<<"doc_results", "sub">>, <<"d">>, "pdf"),
      File(<<>>, <<"notes">>, "txt") }

\* The order in which the walk of the root folder yields files.
WalkOrder ==
    << File(<<>>, <<"a">>, "pdf"),
       File(<<>>, <<"notes">>, "txt"),
       File(<<"doc_results", "sub">>, <<"d">>, "pdf"),
       File(<<"ocr_results">>, <<"c">>, "pdf"),
       File(<<"sub">>, <<"b">>, "pdf") >>

RECURSIVE rglob_pdf(_, _)
\* list(Path(folder_path).rglob("*.pdf")): every file of the subtree, at any
\* depth, whose name ends in .pdf; files is the tree, walk the walk's order
rglob_pdf(files, walk) ==
    IF walk = <<>> THEN <<>>
    ELSE (IF Head(walk) \in files /\ Head(walk).ext = "pdf"
          THEN <<Head(walk)>> ELSE <<>>)
         \o rglob_pdf(files, Tail(walk))

\* output_root / rel_path.parent / f"{rel_path.stem}_ocr.txt"
out_file_of(rel_path) ==
    File(<<"ocr_results">> \o rel_path.dir, rel_path.stem \o <<"_ocr">>, "txt")

\* output_root / rel_path.parent / f"{rel_path.stem}_ERROR.txt"
err_file_of(rel_path) ==
    File(<<"ocr_results">> \o rel_path.dir, rel_path.stem \o <<"_ERROR">>, "txt")

\* what the savers leave under struct_root / rel_path.parent / rel_path.stem
struct_file_of(rel_path, kind) ==
    File(<<"doc_results">> \o rel_path.dir \o rel_path.stem, <<"page">>, kind)

\* A root folder with some input documents and no output root yet.
InitPaths ==
    /\ tree \in SUBSET { f \in UserFiles :
                           f.dir = <<>> \/ f.dir[1] \notin {"ocr_results", "doc_results"} }
    /\ nDocs = 0
    /\ corrupt = [d \in DocIds |-> FALSE]
    /\ mode = "none"
    /\ opts = NoOpts
    /\ pc = "idle"
    /\ Quiet
    /\ txt = <<>>
    /\ verdict = FALSE
    /\ workers = <<>>

\* Someone puts a file under the root folder while no run is active.
PutFile ==
    /\ pc = "idle"
    /\ runNo < MaxRuns
    /\ \E f \in UserFiles \ tree : tree' = tree \cup {f}
    /\ UNCHANGED <<nDocs, corrupt, treeChanged, fsVars, runVars, pc, i, summary,
                   ex, histVars, txt, verdict, workers>>

PathsRest ==
    UNCHANGED <<nDocs, corrupt, treeChanged, fsVars, prev, sameTree, ex,
                existed, engineDocs, written, txt, verdict, workers>>

\* ocr_all_pdfs, lines 198-208: the output root is made, then the root
\* folder is walked
paths_classic_begin ==
    /\ pc = "idle"
    /\ runNo < MaxRuns
    /\ runNo' = runNo + 1
    /\ mode' = "classic"
    /\ opts' = [NoOpts EXCEPT !.min_embedded_chars = 51, !.export_txt = TRUE]
    /\ pdf_files' = rglob_pdf(tree, WalkOrder)
    /\ i' = 1
    /\ summary' = <<>>
    /\ extracted' = {}
    /\ pc' = "loop"
    /\ UNCHANGED tree
    /\ PathsRest

\* ocr_all_pdfs, lines 210-237: one document of the loop
paths_classic_doc ==
    /\ mode = "classic" /\ pc = "loop" /\ i <= Len(pdf_files)
    /\ LET rel_path == pdf_files[i] IN
        IF out_file_of(rel_path) \in tree
        THEN /\ summary' = summary_append(summary, Line("SKIPPED", rel_path, 0))
             /\ UNCHANGED <<tree, extracted>>
        ELSE \E broken \in BOOLEAN :
             LET result == ocr_pdf_file(ex.tmp, broken, opts, <<EnvScanned>>).result IN
             /\ extracted' = extracted \cup {rel_path}
             /\ IF has_error(result)
                THEN /\ tree' = tree \cup {err_file_of(rel_path)}
                     /\ summary' = summary_append(summary, Line("ERROR", rel_path, 0))
                ELSE /\ tree' = tree \cup {out_file_of(rel_path)}
                     /\ summary' = summary_append(summary,
                                       Line("OK", rel_path, result.total_pages))
    /\ i' = i + 1
    /\ UNCHANGED <<runNo, mode, opts, pdf_files, pc>>
    /\ PathsRest

\* run_batch, lines 226-248: both output roots are made, then the root
\* folder is walked; with no document the run returns at line 246
paths_struct_begin ==
    /\ pc = "idle"
    /\ runNo < MaxRuns
    /\ runNo' = runNo + 1
    /\ mode' = "structure"
    /\ \E e \in ExportChoices :
           opts' = [NoOpts EXCEPT !.export_txt = e[1], !.export_json = e[2],
                                  !.export_md = e[3]]
    /\ pdf_files' = rglob_pdf(tree, WalkOrder)
    /\ i' = 1
    /\ IF pdf_files' = <<>>
       THEN /\ summary' = <<Line("No PDF files found", 0, 0)>>
            /\ pc' = "idle"
       ELSE /\ summary' = <<>>
            /\ pc' = "loop"
    /\ extracted' = {}
    /\ UNCHANGED tree
    /\ PathsRest

\* run_batch, lines 250-288: one document of the loop
paths_struct_doc ==
    /\ mode = "structure" /\ pc = "loop" /\ i <= Len(pdf_files)
    /\ LET rel_path == pdf_files[i] IN
        \E broken \in BOOLEAN :
        LET x == process_pdf(ex.tmp, broken, opts, <<EnvScanned>>)
            res == x.result
            saved == { struct_file_of(rel_path, s[2]) : s \in x.struct }
        IN  /\ extracted' = extracted \cup {rel_path}
            /\ IF has_error(res)
               THEN /\ tree' = tree \cup saved \cup {err_file_of(rel_path)}
                    /\ summary' = summary_append(summary, Line("ERROR", rel_path, 0))
               ELSE /\ tree' = tree \cup saved \cup
                               (IF opts.export_txt THEN {out_file_of(rel_path)} ELSE {})
                    /\ summary' = summary_append(summary,
                                      Line("OK", rel_path, res.total_pages))
    /\ i' = i + 1
    /\ UNCHANGED <<runNo, mode, opts, pdf_files, pc>>
    /\ PathsRest

\* app.py line 239, app2.py line 290
paths_return ==
    /\ pc = "loop" /\ i > Len(pdf_files)
    /\ pc' = "idle"
    /\ UNCHANGED <<tree, runNo, mode, opts, pdf_files, i, summary, extracted>>
    /\ PathsRest

NextPaths ==
    \/ PutFile
    \/ paths_classic_begin
    \/ paths_classic_doc
    \/ paths_struct_begin
    \/ paths_struct_doc
    \/ paths_return

SpecPaths == InitPaths /\ [][NextPaths]_vars

\* The path lies under the text output root or, in a structured run, under
\* the structured output root.
UnderOutputRoot(f) ==
    /\ f.dir # <<>>
    /\ \/ f.dir[1] = "ocr_results"
       \/ mode = "structure" /\ f.dir[1] = "doc_results"

\* C11, as claimed: in every batch run, first or later, no discovered
\* document path lies under an output root, and no file under an output root
\* is processed as an input.
C11_AsClaimed ==
    /\ \A k \in 1..Len(pdf_files) : ~UnderOutputRoot(pdf_files[k])
    /\ \A f \in extracted : ~UnderOutputRoot(f)

\* ===================================================== the quality filter
\* The characters the strings under test are made of, in the order they may
\* follow one another: two letters, a digit, a space, a punctuation mark of
\* the allowed set, a symbol outside it.  is_readable_text reads a string
\* through three counts and its length, so one order per choice of
\* characters is enumerated.
TypedChars == <<"O", "K", "1", " ", ".", "#">>

Rank(c) == CHOOSE k \in 1..Len(TypedChars) : TypedChars[k] = c

InitReadable ==
    /\ txt = <<>>
    /\ verdict = is_readable_text(<<>>)
    /\ tree = {}
    /\ workers = <<>>
    /\ nDocs = 0
    /\ corrupt = [d \in DocIds |-> FALSE]
    /\ mode = "none"
    /\ opts = NoOpts
    /\ pc = "filter"
    /\ Quiet

\* is_readable_text(txt) is called on the string one character longer
IsReadableTextCall ==
    /\ pc = "filter"
    /\ Len(txt) < MaxTextLen
    /\ \E k \in 1..Len(TypedChars) :
           /\ IF txt = <<>> THEN TRUE ELSE k >= Rank(txt[Len(txt)])
           /\ txt' = Append(txt, TypedChars[k])
    /\ verdict' = is_readable_text(txt')
    /\ UNCHANGED <<nDocs, corrupt, treeChanged, fsVars, runVars, pc, i, summary,
                   ex, histVars, tree, workers>>

NextReadable == IsReadableTextCall

SpecReadable == InitReadable /\ [][NextReadable]_vars

\* the number of characters of t that are in S
NumIn(S, t) == Cardinality({k \in 1..Len(t) : t[k] \in S})

\* the number of characters of t that are neither alphanumeric, nor
\* whitespace, nor of the allowed punctuation
NumOutside(t) ==
    Cardinality({k \in 1..Len(t) :
                    t[k] \notin Letters \cup Digits \cup Whitespace \cup AllowedPunct})

\* A string of length 20 of which 10 characters are punctuation or symbols.
HalfPunctuation ==
    /\ pc = "filter"
    /\ Len(txt) = 20
    /\ NumIn(AllowedPunct, txt) + NumOutside(txt) = 10

\* C12, as claimed: is_readable_text rejects every string of length 20 in
\* which 10 characters are punctuation or symbols, whatever they are and
\* whatever the other 10 characters are.
C12_AsClaimed ==
    HalfPunctuation => ~verdict

\* C12, amended: a string of length 20 in which 10 characters are
\* punctuation or symbols is rejected exactly when more than 2 of its
\* characters are outside the allowed set or fewer than 8 are letters; with
\* 10 marks of the allowed set and at least 8 letters it is accepted.
C12_HalfPunctuationByKind ==
    HalfPunctuation =>
        (verdict <=> (NumOutside(txt) <= 2 /\ NumIn(Letters, txt) >= 8))

\* Ten letters and ten full stops: accepted.
C12_Witness ==
    /\ HalfPunctuation
    /\ NumIn({"."}, txt) = 10
    /\ NumIn(Letters, txt) = 10
    /\ verdict

\* A non-empty string of letters only.
AllAlphabetic ==
    /\ pc = "filter"
    /\ txt # <<>>
    /\ NumIn(Letters, txt) = Len(txt)

\* C13, as claimed: is_readable_text accepts a very short string that is
\* entirely alphabetic, such as "OK".
C13_AsClaimed ==
    (AllAlphabetic /\ Len(txt) <= 2) => verdict

\* C13, amended: is_readable_text rejects every string of fewer than 3
\* characters, "OK" included; an entirely alphabetic string is accepted
\* exactly when it has between 3 and 20 characters.
C13_AlphabeticByLength ==
    AllAlphabetic => (verdict <=> (Len(txt) >= 3 /\ Len(txt) <= 20))

\* "OK" was handed to the filter, and rejected.
C13_Witness ==
    /\ pc = "filter"
    /\ txt = <<"O", "K">>
    /\ ~verdict

\* ==================================== two batch runs over one root folder
\* Two calls of ocr_all_pdfs (two processes, or two requests served at
\* once) on the same root folder.  Each has its own locals; the output tree
\* is shared.
Workers == {1, 2}

\* the locals of one call before it begins
\*   extracted   documents it handed to ocr_pdf_file
\*   wrote       documents whose _ocr.txt it wrote
IdleWorker ==
    [pc |-> "idle", pdf_files |-> <<>>, i |-> 1, summary |-> <<>>,
     result |-> NoResult, extracted |-> {}, wrote |-> {}]

InitWorkers ==
    /\ nDocs \in 0..MaxDocs
    /\ corrupt \in [DocIds -> BOOLEAN]
    /\ \A d \in DocIds : d > nDocs => ~corrupt[d]
    /\ mode = "classic"
    /\ opts \in ClassicOpts
    /\ pc = "workers"
    /\ Quiet
    /\ workers = [w \in Workers |-> IdleWorker]
    /\ tree = {}
    /\ txt = <<>>
    /\ verdict = FALSE

WorkersRest ==
    UNCHANGED <<treeVars, runVars, pc, i, summary, ex, histVars, tree, txt, verdict>>

\* ocr_all_pdfs, lines 198-208
worker_begin(w) ==
    /\ pc = "workers" /\ workers[w].pc = "idle"
    /\ workers' = [workers EXCEPT ![w] =
           [@ EXCEPT !.pc = "loop", !.pdf_files = list_pdf_files]]
    /\ UNCHANGED fsVars
    /\ WorkersRest

\* ocr_all_pdfs, lines 210-223: the loop header and the resume check
worker_iter(w) ==
    /\ pc = "workers" /\ workers[w].pc = "loop"
    /\ workers[w].i <= Len(workers[w].pdf_files)
    /\ LET d == workers[w].pdf_files[workers[w].i] IN
       workers' = [workers EXCEPT ![w] =
           IF out_file_exists(d)
           THEN [@ EXCEPT !.summary = summary_append(@, Line("SKIPPED", d, 0)),
                          !.i = @ + 1]
           ELSE [@ EXCEPT !.pc = "extract"]]
    /\ UNCHANGED fsVars
    /\ WorkersRest

\* ocr_all_pdfs, line 225: result = ocr_pdf_file(...)
worker_extract(w) ==
    /\ pc = "workers" /\ workers[w].pc = "extract"
    /\ LET d == workers[w].pdf_files[workers[w].i] IN
       \E envs \in BatchDocEnvs :
           workers' = [workers EXCEPT ![w] =
               [@ EXCEPT !.pc = "write",
                         !.result = ocr_pdf_file({}, corrupt[d], opts, envs).result,
                         !.extracted = @ \cup {d}]]
    /\ UNCHANGED fsVars
    /\ WorkersRest

\* ocr_all_pdfs, lines 227-237: persist the result, add the summary line
worker_write(w) ==
    /\ pc = "workers" /\ workers[w].pc = "write"
    /\ LET d == workers[w].pdf_files[workers[w].i]
           result == workers[w].result
       IN  IF has_error(result)
           THEN /\ errFile' = [errFile EXCEPT ![d] =
                       [exists |-> TRUE, text |-> ErrorText(result)]]
                /\ UNCHANGED outFile
                /\ workers' = [workers EXCEPT ![w] =
                       [@ EXCEPT !.pc = "loop", !.i = @ + 1, !.result = NoResult,
                                 !.summary = summary_append(@, Line("ERROR", d, 0))]]
           ELSE /\ outFile' = [outFile EXCEPT ![d] =
                       [exists |-> TRUE, text |-> result.full_text]]
                /\ UNCHANGED errFile
                /\ workers' = [workers EXCEPT ![w] =
                       [@ EXCEPT !.pc = "loop", !.i = @ + 1, !.result = NoResult,
                                 !.wrote = @ \cup {d},
                                 !.summary = summary_append(@,
                                     Line("OK", d, result.total_pages))]]
    /\ WorkersRest

\* ocr_all_pdfs, line 239
worker_return(w) ==
    /\ pc = "workers" /\ workers[w].pc = "loop"
    /\ workers[w].i > Len(workers[w].pdf_files)
    /\ workers' = [workers EXCEPT ![w] = [@ EXCEPT !.pc = "done"]]
    /\ UNCHANGED fsVars
    /\ WorkersRest

NextWorkers ==
    \/ \E w \in Workers : worker_begin(w)
    \/ \E w \in Workers : worker_iter(w)
    \/ \E w \in Workers : worker_extract(w)
    \/ \E w \in Workers : worker_write(w)
    \/ \E w \in Workers : worker_return(w)

SpecWorkers == InitWorkers /\ [][NextWorkers]_vars

\* C14, as claimed: with two batch runs at once over one root folder, the
\* resume check and the write of a document's text artifact are atomic with
\* respect to each other: never do both runs find the same document
\* unprocessed, both call the extractor on it and both write its _ocr.txt.
C14_AsClaimed ==
    pc = "workers" =>
        \A d \in DocIds :
            ~(\A w \in Workers : d \in workers[w].extracted /\ d \in workers[w].wrote)

\* ============================================ a classic run, interrupted
\* The classic batch with Path.write_text in its two steps (the file is
\* opened for writing, which creates or empties it; the text is written and
\* the file closed) and with the process ended at any point of a run.

\* what an interrupted write_text may leave of the text on disk
Flushed(full) == {<<>>, SubSeq(full, 1, Len(full) \div 2)}

\* lines 228 and 235: write_text opens err_file or out_file for writing
write_text_open ==
    /\ mode = "classic" /\ pc = "write"
    /\ LET d == pdf_files[i] IN
       IF has_error(ex.result)
       THEN /\ errFile' = [errFile EXCEPT ![d] = [exists |-> TRUE, text |-> <<>>]]
            /\ UNCHANGED outFile
       ELSE /\ outFile' = [outFile EXCEPT ![d] = [exists |-> TRUE, text |-> <<>>]]
            /\ UNCHANGED errFile
    /\ pc' = "writing"
    /\ UNCHANGED <<otherVars, treeVars, runVars, i, summary, ex, histVars>>

\* lines 227-237: the text is on disk, the file closed, the line appended
write_text_close ==
    /\ mode = "classic" /\ pc = "writing"
    /\ WriteResult(pdf_files[i], ex.result, TRUE)
    /\ i' = i + 1
    /\ pc' = "loop"
    /\ UNCHANGED <<otherVars, treeVars, runVars, ex, existed, extracted, engineDocs>>

\* The process of a run ends (killed, power lost): its locals are gone, the
\* output tree stays as it is; a file being written holds what was flushed.
Interrupt ==
    /\ mode = "classic" /\ pc \in {"loop", "extract", "write", "writing"}
    /\ IF pc = "writing"
       THEN LET d == pdf_files[i] IN
            IF has_error(ex.result)
            THEN /\ \E part \in Flushed(ErrorText(ex.result)) :
                        errFile' = [errFile EXCEPT ![d] = [exists |-> TRUE, text |-> part]]
                 /\ UNCHANGED outFile
            ELSE /\ \E part \in Flushed(ex.result.full_text) :
                        outFile' = [outFile EXCEPT ![d] = [exists |-> TRUE, text |-> part]]
                 /\ UNCHANGED errFile
       ELSE UNCHANGED fsVars
    /\ pc' = "idle"
    /\ summary' = <<>>
    /\ ex' = Idle(ex.tmp)
    /\ UNCHANGED <<otherVars, treeVars, runVars, i, histVars>>

NextInterrupt ==
    \/ ocr_all_pdfs_begin
    \/ ocr_all_pdfs_iter
    \/ ocr_all_pdfs_extract
    \/ write_text_open
    \/ write_text_close
    \/ ocr_all_pdfs_return
    \/ Interrupt

SpecInterrupt == Init /\ [][NextInterrupt]_vars

\* the full_text of the successful extractions of the documents a run meets
CompleteTexts ==
    { ocr_pdf_file({}, FALSE, o, envs).result.full_text :
          o \in ClassicOpts, envs \in BatchDocEnvs }

\* C15, as claimed: when a classic run is interrupted at any point and the
\* batch is run again, every document the new run records as SKIPPED has an
\* _ocr.txt holding the complete text of a successful extraction; and,
\* whenever no write is in progress, an existing _ocr.txt holds such a text.
C15_AsClaimed ==
    mode = "classic" =>
        /\ \A k \in Entries :
               summary[k].status = "SKIPPED" =>
                   outFile[summary[k].doc].text \in CompleteTexts
        /\ pc # "writing" =>
               \A d \in DocIds : outFile[d].exists => outFile[d].text \in CompleteTexts

====
